---------------------------- MODULE Spec2Model ----------------------------
(***************************************************************************)
(* A model of QSchematic's Wire item (src/lib/items/wire.cpp): the ordered *)
(* list of grid points of one wire, its mutation API, the two geometry     *)
(* simplification passes, the bounding rectangle and the mouse-driven drag *)
(* state machine.                                                          *)
(*                                                                         *)
(* Every C++ method is an operator from a wire value to a wire value,      *)
(* composed the way the methods call each other; every action applies one  *)
(* whole public call or event handler.                                     *)
(***************************************************************************)
EXTENDS Integers, Sequences, FiniteSets, TLC

VARIABLES
    points,                  \* _points: the WirePoints, relative to gridPos
    rect,                    \* _rect
    gridPos,                 \* Item::gridPoint(): the wire's own position
    selected,                \* Item::isSelected()
    pointToMoveIndex,        \* _pointToMoveIndex
    lineSegmentToMoveIndex,  \* _lineSegmentToMoveIndex
    prevMousePos,            \* _prevMousePos
    call,                    \* observer: the last call or event and its result
    pre,                     \* observer: the wire as it was before that call
    emitted,                 \* observer: the pointMoved signals of that call
    delegated                \* observer: that call ran the Item:: base handler

vars == <<points, rect, gridPos, selected, pointToMoveIndex,
          lineSegmentToMoveIndex, prevMousePos, call, pre, emitted, delegated>>

---------------------------------------------------------------------------
(* Bounds of the model.                                                    *)

\* longest point list the mutation API is exercised on
MaxPts == 3
\* longest point list the simplification passes are exercised on
MaxLen == 4
\* longest point list of a dragged wire
MaxDragPts == 2
\* longest point list removeDuplicatePoints is followed through pass by pass
MaxDedupLen == 6

\* grid coordinates the enumerated points are drawn from
Xs == {0, 1, 2}
Ys == {0, 1}
GridPositions == {<<x, y>> : x \in Xs, y \in Ys}
\* positions of the points of a wire handed to removeDuplicatePoints alone
DedupPositions == {<<0, 0>>, <<1, 0>>, <<0, 1>>}
\* positions of the wire item itself
Anchors == {<<0, 0>>, <<0, 1>>}
\* position of a dragged wire
DragAnchor == <<0, 1>>
\* displacements handed to the move calls
Deltas == {<<0, 1>>, <<1, 0>>, <<-1, -1>>}
\* absolute positions handed to the calls that take one
NewPositions == {<<0, 0>>, <<2, 0>>, <<1, 1>>}

---------------------------------------------------------------------------
(* Values.                                                                 *)

IntMax == 2147483647
IntMin == -2147483647 - 1

Min(a, b) == IF a < b THEN a ELSE b
Max(a, b) == IF a > b THEN a ELSE b
Abs(a) == IF a < 0 THEN -a ELSE a

Add(p, q) == <<p[1] + q[1], p[2] + q[2]>>
Sub(p, q) == <<p[1] - q[1], p[2] - q[2]>>

\* WirePoint(const QPoint&): a point built from a position is no junction
WirePoint(p) == [x |-> p[1], y |-> p[2], isJunction |-> FALSE]
\* WirePoint::toPoint()
toPoint(wp) == <<wp.x, wp.y>>
\* WirePoint::operator==, which QVector::count/removeOne/removeAll use:
\* equality is by position only
WirePointEq(a, b) == a.x = b.x /\ a.y = b.y
\* WirePoint::setIsJunction
setIsJunction(wp, j) == [wp EXCEPT !.isJunction = j]

\* Settings::gridSize, the cell size
GridSize == 8

Positions(pts) == [i \in 1..Len(pts) |-> toPoint(pts[i])]
count(pts, wp) == Cardinality({i \in 1..Len(pts) : WirePointEq(pts[i], wp)})

---------------------------------------------------------------------------
(* A wire value: what the methods read and write.                          *)
(*   points, rect, gridPos as the variables; emits: the pointMoved signals *)
(*   fired so far by the running call, each with the point it carries and  *)
(*   the point list and rectangle a slot connected to it reads; ret: the   *)
(*   value the call returns (0 for a void method).                         *)

Signal(w, wp) == [point |-> wp, points |-> w.points, rect |-> w.rect]
emit(w, wp) == [w EXCEPT !.emits = Append(@, Signal(w, wp))]

\* QPointF * gridSize; the INT_MAX / INT_MIN corners of an empty wire are
\* kept as they are (the product is taken in floating point in the code)
Scaled(v) == IF v = IntMax \/ v = IntMin THEN v ELSE v * GridSize

RECURSIVE FoldMin(_, _, _)
FoldMin(s, i, acc) ==
    IF i > Len(s) THEN acc ELSE FoldMin(s, i + 1, IF s[i] < acc THEN s[i] ELSE acc)
RECURSIVE FoldMax(_, _, _)
FoldMax(s, i, acc) ==
    IF i > Len(s) THEN acc ELSE FoldMax(s, i + 1, IF s[i] > acc THEN s[i] ELSE acc)

\* Wire::calculateBoundingRect
calculateBoundingRect(pts) ==
    LET xs == [i \in 1..Len(pts) |-> pts[i].x]
        ys == [i \in 1..Len(pts) |-> pts[i].y]
    IN  [topLeft     |-> <<Scaled(FoldMin(xs, 1, IntMax)), Scaled(FoldMin(ys, 1, IntMax))>>,
         bottomRight |-> <<Scaled(FoldMax(xs, 1, IntMin)), Scaled(FoldMax(ys, 1, IntMin))>>]

\* Wire::update
update(w) == [w EXCEPT !.rect = calculateBoundingRect(w.points)]

\* the two statements every mutator ends with before it emits
recalc(w) == update([w EXCEPT !.rect = calculateBoundingRect(w.points)])

\* Wire::prependPoint
prependPoint(w, point) ==
    LET w1 == recalc([w EXCEPT !.points = <<WirePoint(Sub(point, w.gridPos))>> \o @])
    IN  emit(w1, w1.points[1])

\* Wire::appendPoint
appendPoint(w, point) ==
    LET w1 == recalc([w EXCEPT !.points = Append(@, WirePoint(Sub(point, w.gridPos)))])
    IN  emit(w1, w1.points[Len(w1.points)])

\* insertPoint with the boundary check one off: index == count appends
insertPoint_AcceptsEnd(w, index, point) ==
    IF index < 0 \/ index > Len(w.points)
    THEN w
    ELSE LET w1 == recalc([w EXCEPT !.points =
                        SubSeq(@, 1, index) \o <<WirePoint(Sub(point, w.gridPos))>>
                        \o SubSeq(@, index + 1, Len(@))])
         IN  emit(w1, w1.points[index + 1])

\* Wire::insertPoint (index is 0-based, as in the code)
insertPoint(w, index, point) ==
    IF index < 0 \/ index >= Len(w.points)
    THEN w
    ELSE LET w1 == recalc([w EXCEPT !.points =
                        SubSeq(@, 1, index) \o <<WirePoint(Sub(point, w.gridPos))>>
                        \o SubSeq(@, index + 1, Len(@))])
         IN  emit(w1, w1.points[index + 1])

\* Wire::removeFirstPoint
removeFirstPoint(w) ==
    IF Len(w.points) <= 0 THEN w
    ELSE recalc([w EXCEPT !.points = Tail(@)])

\* removeLastPoint taking the point off the wrong end
removeLastPoint_DropsFirst(w) ==
    IF Len(w.points) <= 0 THEN w
    ELSE recalc([w EXCEPT !.points = Tail(@)])

\* Wire::removeLastPoint
removeLastPoint(w) ==
    IF Len(w.points) <= 0 THEN w
    ELSE recalc([w EXCEPT !.points = SubSeq(@, 1, Len(@) - 1)])

\* Wire::removePoint: QVector::removeAll of the position less gridPoint()
removePoint(w, point) ==
    LET gone == WirePoint(Sub(point, w.gridPos))
        keep(wp) == ~WirePointEq(wp, gone)
    IN  recalc([w EXCEPT !.points = SelectSeq(@, keep)])

\* movePointBy taking moveBy for the new position
movePointBy_To(w, index, moveBy) ==
    IF index < 0 \/ index > Len(w.points) - 1
    THEN w
    ELSE LET w1 == recalc([w EXCEPT !.points[index + 1] = WirePoint(moveBy)])
         IN  emit(w1, w1.points[index + 1])

\* movePointBy with the emit forgotten
movePointBy_NoEmit(w, index, moveBy) ==
    IF index < 0 \/ index > Len(w.points) - 1
    THEN w
    ELSE recalc([w EXCEPT !.points[index + 1] = WirePoint(Add(toPoint(@), moveBy))])

\* Wire::movePointBy
movePointBy(w, index, moveBy) ==
    IF index < 0 \/ index > Len(w.points) - 1
    THEN w
    ELSE LET w1 == recalc([w EXCEPT !.points[index + 1] =
                        WirePoint(Add(toPoint(@), moveBy))])
         IN  emit(w1, w1.points[index + 1])

\* Wire::movePointTo
movePointTo(w, index, moveTo) ==
    IF index < 0 \/ index > Len(w.points) - 1
    THEN w
    ELSE LET w1 == recalc([w EXCEPT !.points[index + 1] =
                        WirePoint(Sub(moveTo, w.gridPos))])
         IN  emit(w1, w1.points[index + 1])

\* Wire::moveLineSegmentBy
moveLineSegmentBy(w, index, moveBy) ==
    IF index < 0 \/ index > Len(w.points) - 1
    THEN w
    ELSE movePointBy(movePointBy(w, index, moveBy), index + 1, moveBy)

\* setPointIsJunction clamping the index into the list
setPointIsJunction_Clamps(w, index, isJunction) ==
    IF Len(w.points) = 0
    THEN w
    ELSE LET i == Min(Max(index, 0), Len(w.points) - 1)
         IN  update([w EXCEPT !.points[i + 1] = setIsJunction(@, isJunction)])

\* Wire::setPointIsJunction
setPointIsJunction(w, index, isJunction) ==
    IF index < 0 \/ index > Len(w.points) - 1
    THEN w
    ELSE update([w EXCEPT !.points[index + 1] = setIsJunction(@, isJunction)])

---------------------------------------------------------------------------
(* QVector<WirePoint> as removeDuplicatePoints sees it.  The range-for     *)
(* takes begin() and end() once and holds `point` as a reference into the  *)
(* array while removeOne erases from that same array, so the loop reads    *)
(* slots by address: a slot may hold another element after an erase, or    *)
(* lie outside the live range.  The array is buf, the live elements are    *)
(* buf[off+1 .. off+size].  An erase never reallocates.  What it leaves in *)
(* the slots depends on the Qt the wire is built against: Qt 5 always      *)
(* moves the tail down ("compact"); Qt 6 drops a first element by moving   *)
(* begin() forward ("advance") and moves the tail down otherwise.          *)

EraseKinds == {"compact", "advance"}

Vec(pts) == [buf |-> pts, off |-> 0, size |-> Len(pts)]
Live(v) == SubSeq(v.buf, v.off + 1, v.off + v.size)

\* QVector::indexOf, 0-based, -1 when absent
indexOf(v, wp) ==
    LET hits == {i \in 0..(v.size - 1) : WirePointEq(v.buf[v.off + 1 + i], wp)}
    IN  IF hits = {} THEN -1 ELSE CHOOSE i \in hits : \A j \in hits : i <= j

\* QVector::erase of the live element i (0-based)
erase(v, i, kind) ==
    IF kind = "advance" /\ i = 0 /\ v.size > 1
    THEN [v EXCEPT !.off = @ + 1, !.size = @ - 1]
    ELSE [v EXCEPT !.size = @ - 1,
                   !.buf = [k \in 1..Len(v.buf) |->
                              IF k >= v.off + 1 + i /\ k < v.off + v.size
                              THEN v.buf[k + 1] ELSE v.buf[k]]]

\* removeOne that finds the element and leaves it in place
removeOne_Missing(v, wp, kind) ==
    LET i == indexOf(v, wp) IN IF i < 0 THEN v ELSE v

\* QVector::removeOne
removeOne(v, wp, kind) ==
    LET i == indexOf(v, wp) IN IF i < 0 THEN v ELSE erase(v, i, kind)

\* the inner for of removeDuplicatePoints: n times removeOne(point), where
\* point is whatever slot a holds at that moment
\* (the vector after each removeOne is bound to its value, v1, before the
\* next one is applied to it; likewise st1 in removePass)
RECURSIVE removeCopies(_, _, _, _)
removeCopies(v, a, n, kind) ==
    IF n = 0 THEN v
    ELSE CHOOSE r \in {removeCopies(v1, a, n - 1, kind) :
                          v1 \in {removeOne(v, v.buf[a], kind)}} : TRUE

\* the range-for of removeDuplicatePoints over the slots a .. last;
\* st = [v, removedCount]
RECURSIVE removePass(_, _, _, _)
\* the range-for counting every occurrence, the kept one included
RECURSIVE removePass_CountsAll(_, _, _, _)
removePass_CountsAll(st, a, last, kind) ==
    IF a > last THEN st
    ELSE LET c == count(Live(st.v), st.v.buf[a])
         IN  removePass_CountsAll(IF c > 1
                        THEN [v |-> removeCopies(st.v, a, c - 1, kind),
                              removedCount |-> st.removedCount + c]
                        ELSE st,
                        a + 1, last, kind)

removePass(st, a, last, kind) ==
    IF a > last THEN st
    ELSE LET c == count(Live(st.v), st.v.buf[a])
         IN  CHOOSE r \in {removePass(st1, a + 1, last, kind) :
                 st1 \in {IF c > 1
                          THEN [v |-> removeCopies(st.v, a, c - 1, kind),
                                removedCount |-> st.removedCount + (c - 1)]
                          ELSE st}} : TRUE

\* the second for of the do-while body
allUnique(pts) == \A i \in 1..Len(pts) : ~(count(pts, pts[i]) > 1)

\* the do-while of removeDuplicatePoints
RECURSIVE removeUntilUnique(_, _)
removeUntilUnique(st, kind) ==
    LET st1 == removePass(st, st.v.off + 1, st.v.off + st.v.size, kind)
    IN  IF allUnique(Live(st1.v)) THEN st1 ELSE removeUntilUnique(st1, kind)

\* Wire::removeDuplicatePoints
removeDuplicatePoints(w, kind) ==
    LET st == removeUntilUnique([v |-> Vec(w.points), removedCount |-> 0], kind)
    IN  [w EXCEPT !.points = Live(st.v), !.ret = st.removedCount]

---------------------------------------------------------------------------
(* removeObsoletePoints.                                                   *)

Dot(u, v) == u[1] * v[1] + u[2] * v[2]
Cross(u, v) == u[1] * v[2] - u[2] * v[1]

\* qFuzzyCompare(dotProduct, v1.length() * v2.length()) on floats:
\*   |d - a| * 100000 <= min(|d|, |a|)   with a = |v1||v2| >= |d|.
\* For d < 0 this holds never; for d >= 0 it is a <= d * 1.00001, that is
\* a^2 - d^2 <= d^2 * 200001 / 10^10, and a^2 - d^2 is Cross(v1, v2)^2.
\* (Exact in the integers; float rounding is far below the tolerance for
\* the coordinates enumerated here.)
fuzzyCollinear(v1, v2) ==
    LET d == Dot(v1, v2)
        c == Cross(v1, v2)
    IN  d >= 0 /\ c * c <= ((d * d * 200001) \div 100000) \div 100000

\* the marking loop: the points[i-1] (0-based i from 2) that pass the test
RECURSIVE pointsToRemove(_, _)
pointsToRemove(pts, i) ==
    IF i >= Len(pts) THEN << >>
    ELSE LET p1 == toPoint(pts[i - 1])
             p2 == toPoint(pts[i])
             p3 == toPoint(pts[i + 1])
         IN  (IF fuzzyCollinear(Sub(p2, p1), Sub(p3, p2)) THEN <<pts[i]>> ELSE << >>)
             \o pointsToRemove(pts, i + 1)

\* the removal loop: removePoint(point.toPoint()) for each marked point
RECURSIVE removeMarked(_, _)
removeMarked(w, marked) ==
    IF marked = << >> THEN w
    ELSE removeMarked(removePoint(w, toPoint(Head(marked))), Tail(marked))

\* Wire::removeObsoletePoints
removeObsoletePoints(w) ==
    IF Len(w.points) < 3
    THEN [w EXCEPT !.ret = 0]
    ELSE LET marked == pointsToRemove(w.points, 2)
         IN  [removeMarked(w, marked) EXCEPT !.ret = Len(marked)]

---------------------------------------------------------------------------
(* Grid and scene coordinates, line segments, and the mouse handlers.      *)

HANDLE_SIZE == 3

\* Settings::toScenePoint: a grid point in scene coordinates
toScenePoint(g) == <<g[1] * GridSize, g[2] * GridSize>>

\* qRound(a / gridSize): to the nearest, a half rounds up
RoundDiv(a) == (2 * a + GridSize) \div (2 * GridSize)

\* Settings::toGridPoint: a scene position snapped to the grid
toGridPoint(s) == <<RoundDiv(s[1]), RoundDiv(s[2])>>

\* Wire::scenePointsAbsolute
scenePointsAbsolute(w) ==
    [i \in 1..Len(w.points) |-> toScenePoint(Add(toPoint(w.points[i]), w.gridPos))]

\* Line(p1, p2)
Line(p1, p2) == [p1 |-> p1, p2 |-> p2]
\* Line::isHorizontal
isHorizontal(line) == line.p1[2] = line.p2[2]
\* Line::isVertical
isVertical(line) == line.p1[1] = line.p2[1]

\* Line::containsPoint(point, tolerance): the point lies within tolerance of
\* the segment, measured across it, and between its two ends
containsPoint(line, q, tolerance) ==
    LET d == Sub(line.p2, line.p1)
        r == Sub(q, line.p1)
    IN  IF d = <<0, 0>>
        THEN Dot(r, r) <= tolerance * tolerance
        ELSE /\ Cross(d, r) * Cross(d, r) <= tolerance * tolerance * Dot(d, d)
             /\ 0 <= Dot(d, r) /\ Dot(d, r) <= Dot(d, d)

\* Wire::lineSegments
lineSegments(w) ==
    IF Len(w.points) < 2 THEN << >>
    ELSE [i \in 1..(Len(w.points) - 1) |->
            Line(Add(w.gridPos, toPoint(w.points[i])),
                 Add(w.gridPos, toPoint(w.points[i + 1])))]

\* QRectF(x - HANDLE_SIZE, y - HANDLE_SIZE, 2*HANDLE_SIZE, 2*HANDLE_SIZE)
\*   .contains(scenePos): the edges belong to the rectangle
handleRectContains(center, scenePos) ==
    /\ Abs(scenePos[1] - center[1]) <= HANDLE_SIZE
    /\ Abs(scenePos[2] - center[2]) <= HANDLE_SIZE

\* the first index (0-based) among the elements that pass the test (hits,
\* 1-based), -1 when none
FirstHit(hits) ==
    IF hits # {}
    THEN (CHOOSE i \in hits : \A j \in hits : i <= j) - 1
    ELSE -1

\* Wire::mousePressEvent
mousePressEvent(w, scenePos) ==
    LET w0 == [w EXCEPT !.prevMousePos = toGridPoint(scenePos)]
        pts == scenePointsAbsolute(w)
        lines == lineSegments(w)
        onHandle(i) == handleRectContains(pts[i], scenePos)
        onLine(i) == containsPoint(lines[i], toGridPoint(scenePos), 1)
        handle == FirstHit({i \in 1..Len(pts) : onHandle(i)})
        segment == FirstHit({i \in 1..Len(lines) : onLine(i)})
    IN  IF w.selected
        THEN IF handle > -1
             THEN [w0 EXCEPT !.pointToMoveIndex = handle]
             ELSE LET w1 == [w0 EXCEPT !.pointToMoveIndex =
                                 IF Len(pts) > 0 THEN -1 ELSE @]
                  IN  IF segment > -1
                      THEN [w1 EXCEPT !.lineSegmentToMoveIndex = segment]
                      ELSE [w1 EXCEPT !.lineSegmentToMoveIndex =
                                 IF Len(lines) > 0 THEN -1 ELSE @]
        ELSE [w0 EXCEPT !.delegated = TRUE]

\* mouseReleaseEvent with the drag target left in place
mouseReleaseEvent_KeepsTarget(w, scenePos) ==
    [w EXCEPT !.delegated = TRUE,
              !.prevMousePos = toGridPoint(scenePos)]

\* Wire::mouseReleaseEvent
mouseReleaseEvent(w, scenePos) ==
    [w EXCEPT !.delegated = TRUE,
              !.pointToMoveIndex = -1,
              !.lineSegmentToMoveIndex = -1,
              !.prevMousePos = toGridPoint(scenePos)]

\* lineSegments().at(index): past the end of the list the read is out of
\* bounds and yields whatever line the memory there holds
StrayLines ==
    {Line(<<0, 0>>, <<1, 0>>), Line(<<0, 0>>, <<0, 1>>), Line(<<0, 0>>, <<1, 1>>)}

lineAt(w, index) ==
    IF index < Len(lineSegments(w)) THEN {lineSegments(w)[index + 1]} ELSE StrayLines

\* the displacement left unconstrained whatever the line's orientation
moveLineBy_Free(line, curPos, prevPos, ctrlPressed) ==
    Sub(curPos, prevPos)

\* the displacement mouseMoveEvent gives a dragged line
moveLineBy(line, curPos, prevPos, ctrlPressed) ==
    IF isHorizontal(line) THEN <<0, curPos[2] - prevPos[2]>>
    ELSE IF isVertical(line) THEN <<curPos[1] - prevPos[1], 0>>
    ELSE IF ctrlPressed THEN Sub(curPos, prevPos)
    ELSE <<0, 0>>

\* mouseMoveEvent leaving _prevMousePos where it was
mouseMoveEvent_KeepsPrev(w, scenePos, ctrlPressed, line) ==
    LET curPos == toGridPoint(scenePos)
    IN  IF w.pointToMoveIndex > -1
        THEN movePointTo(w, w.pointToMoveIndex, curPos)
        ELSE IF w.lineSegmentToMoveIndex > -1
        THEN moveLineSegmentBy(w, w.lineSegmentToMoveIndex,
                 moveLineBy(line, curPos, w.prevMousePos, ctrlPressed))
        ELSE [w EXCEPT !.delegated = TRUE]

\* Wire::mouseMoveEvent; line is what lineSegments().at() returned
mouseMoveEvent(w, scenePos, ctrlPressed, line) ==
    LET curPos == toGridPoint(scenePos)
        w1 == IF w.pointToMoveIndex > -1
              THEN movePointTo(w, w.pointToMoveIndex, curPos)
              ELSE IF w.lineSegmentToMoveIndex > -1
              THEN moveLineSegmentBy(w, w.lineSegmentToMoveIndex,
                       moveLineBy(line, curPos, w.prevMousePos, ctrlPressed))
              ELSE [w EXCEPT !.delegated = TRUE]
    IN  [w1 EXCEPT !.prevMousePos = curPos]

---------------------------------------------------------------------------
(* The calls of the point list API as actions.                             *)

\* the wire the next call starts from
Wire == [points |-> points, rect |-> rect, gridPos |-> gridPos,
         selected |-> selected,
         pointToMoveIndex |-> pointToMoveIndex,
         lineSegmentToMoveIndex |-> lineSegmentToMoveIndex,
         prevMousePos |-> prevMousePos,
         emits |-> << >>, ret |-> 0, delegated |-> FALSE]

Snapshot == [points |-> points, rect |-> rect,
             pointToMoveIndex |-> pointToMoveIndex,
             lineSegmentToMoveIndex |-> lineSegmentToMoveIndex,
             prevMousePos |-> prevMousePos]

Call(op, index, point, flag) ==
    [op |-> op, index |-> index, point |-> point, flag |-> flag, ret |-> 0]

\* the state after a call that took Wire to w; the observer variables hold
\* one call, so a behaviour is an initial wire and one call on it
Returns(w, c) ==
    /\ call.op = "none"
    /\ points' = w.points
    /\ rect' = w.rect
    /\ emitted' = w.emits
    /\ call' = [c EXCEPT !.ret = w.ret]
    /\ pre' = Snapshot
    /\ delegated' = FALSE
    /\ UNCHANGED <<gridPos, selected, pointToMoveIndex,
                   lineSegmentToMoveIndex, prevMousePos>>

\* indices handed to the indexed calls: one below, all valid, one above
Indices == -1..Len(points)

CallPrependPoint ==
    \E p \in NewPositions :
        /\ Returns(prependPoint(Wire, p), Call("prependPoint", 0, p, FALSE))

CallAppendPoint ==
    \E p \in NewPositions :
        /\ Returns(appendPoint(Wire, p), Call("appendPoint", 0, p, FALSE))

CallInsertPoint ==
    \E i \in Indices, p \in NewPositions :
        /\ Returns(insertPoint(Wire, i, p), Call("insertPoint", i, p, FALSE))

CallRemoveFirstPoint ==
    Returns(removeFirstPoint(Wire), Call("removeFirstPoint", 0, <<0, 0>>, FALSE))

CallRemoveLastPoint ==
    Returns(removeLastPoint(Wire), Call("removeLastPoint", 0, <<0, 0>>, FALSE))

CallRemovePoint ==
    \E p \in GridPositions :
        Returns(removePoint(Wire, p), Call("removePoint", 0, p, FALSE))

CallRemoveDuplicatePoints ==
    \E kind \in EraseKinds :
        Returns(removeDuplicatePoints(Wire, kind),
                Call("removeDuplicatePoints", 0, <<0, 0>>, FALSE))

CallRemoveObsoletePoints ==
    Returns(removeObsoletePoints(Wire),
            Call("removeObsoletePoints", 0, <<0, 0>>, FALSE))

CallMovePointBy ==
    \E i \in Indices, d \in Deltas :
        Returns(movePointBy(Wire, i, d), Call("movePointBy", i, d, FALSE))

CallMovePointTo ==
    \E i \in Indices, p \in NewPositions :
        Returns(movePointTo(Wire, i, p), Call("movePointTo", i, p, FALSE))

CallMoveLineSegmentBy ==
    \E i \in Indices, d \in Deltas :
        Returns(moveLineSegmentBy(Wire, i, d), Call("moveLineSegmentBy", i, d, FALSE))

CallSetPointIsJunction ==
    \E i \in Indices, j \in BOOLEAN :
        Returns(setPointIsJunction(Wire, i, j),
                Call("setPointIsJunction", i, <<0, 0>>, j))

---------------------------------------------------------------------------
(* Initial states: a wire some calls have built (its points and junction,  *)
(* with the rectangle the last mutator computed), no drag under way, as    *)
(* the constructor leaves it.                                              *)

Lists(S, n) == UNION {[1..k -> S] : k \in 0..n}

\* the lists of at most n points on the grid with at most one junction
Wires(n) ==
    {[i \in 1..Len(ps) |-> [x |-> ps[i][1], y |-> ps[i][2], isJunction |-> (i = j)]] :
        <<ps, j>> \in {q \in Lists(GridPositions, n) \X (0..n) : q[2] <= Len(q[1])}}

InitWith(lists) ==
    /\ points \in lists
    /\ rect = calculateBoundingRect(points)
    /\ gridPos \in Anchors
    /\ selected = FALSE
    /\ pointToMoveIndex = -1
    /\ lineSegmentToMoveIndex = -1
    /\ prevMousePos = <<0, 0>>
    /\ call = Call("none", 0, <<0, 0>>, FALSE)
    /\ pre = Snapshot
    /\ emitted = << >>
    /\ delegated = FALSE

Init == InitWith(Wires(MaxPts))

Next ==
    \/ CallPrependPoint
    \/ CallAppendPoint
    \/ CallInsertPoint
    \/ CallRemoveFirstPoint
    \/ CallRemoveLastPoint
    \/ CallRemovePoint
    \/ CallRemoveDuplicatePoints
    \/ CallRemoveObsoletePoints
    \/ CallMovePointBy
    \/ CallMovePointTo
    \/ CallMoveLineSegmentBy
    \/ CallSetPointIsJunction

Spec == Init /\ [][Next]_vars

\* the simplification passes alone, on longer lists
InitSimplify == InitWith(Wires(MaxLen))

NextSimplify ==
    \/ CallRemovePoint
    \/ CallRemoveDuplicatePoints
    \/ CallRemoveObsoletePoints

SpecSimplify == InitSimplify /\ [][NextSimplify]_vars

---------------------------------------------------------------------------
(* A call followed by the call that undoes it.                             *)

Neg(d) == <<-d[1], -d[2]>>
\* the displacements that undo Deltas; no displacement is in both sets, so
\* the argument of a movePointBy tells the first call from the second
Back == {Neg(d) : d \in Deltas}

\* the state after a second call that took Wire to w; pre stays the wire
\* before the first call
Then(w, c) ==
    /\ points' = w.points
    /\ rect' = w.rect
    /\ emitted' = w.emits
    /\ call' = [c EXCEPT !.ret = w.ret]
    /\ delegated' = FALSE
    /\ UNCHANGED <<pre, gridPos, selected, pointToMoveIndex,
                   lineSegmentToMoveIndex, prevMousePos>>

ThenRemoveLastPoint ==
    /\ call.op = "appendPoint"
    /\ Then(removeLastPoint(Wire), Call("removeLastPoint", 0, call.point, FALSE))

ThenRemoveFirstPoint ==
    /\ call.op = "prependPoint"
    /\ Then(removeFirstPoint(Wire), Call("removeFirstPoint", 0, call.point, FALSE))

ThenMovePointBack ==
    /\ call.op = "movePointBy"
    /\ call.point \in Deltas
    /\ Then(movePointBy(Wire, call.index, Neg(call.point)),
            Call("movePointBy", call.index, Neg(call.point), FALSE))

NextRoundTrip ==
    \/ CallAppendPoint
    \/ CallPrependPoint
    \/ CallMovePointBy
    \/ ThenRemoveLastPoint
    \/ ThenRemoveFirstPoint
    \/ ThenMovePointBack

SpecRoundTrip == Init /\ [][NextRoundTrip]_vars

---------------------------------------------------------------------------
(* removeDuplicatePoints iteration by iteration, on a wire built point by  *)
(* point: one step is one run of the do-while body.  call.op is "enter"    *)
(* when the call has set removedCount and is about to run the body for the *)
(* first time, "do" when the while condition sent it back for another run, *)
(* and "removeDuplicatePoints" once it has returned; call.ret is           *)
(* removedCount.                                                           *)

Building == call.op \in {"none", "appendPoint"}
InLoop == call.op \in {"enter", "do"}
Exited == call.op = "removeDuplicatePoints"

BuildAppendPoint ==
    /\ Building
    /\ Len(points) < MaxDedupLen
    /\ \E p \in DedupPositions :
        Then(appendPoint(Wire, p), Call("appendPoint", 0, p, FALSE))

EnterRemoveDuplicatePoints ==
    /\ Building
    /\ call' = Call("enter", 0, <<0, 0>>, FALSE)
    /\ pre' = Snapshot
    /\ emitted' = << >>
    /\ UNCHANGED <<points, rect, gridPos, selected, pointToMoveIndex,
                   lineSegmentToMoveIndex, prevMousePos, delegated>>

DoWhileBody ==
    /\ InLoop
    /\ \E kind \in EraseKinds :
      \E st \in {removePass([v |-> Vec(points), removedCount |-> call.ret],
                            1, Len(points), kind)} :
        LET left == Live(st.v)
        IN  /\ points' = left
            /\ call' = [Call(IF allUnique(left) THEN "removeDuplicatePoints" ELSE "do",
                             0, <<0, 0>>, FALSE) EXCEPT !.ret = st.removedCount]
    /\ UNCHANGED <<rect, gridPos, selected, pointToMoveIndex,
                   lineSegmentToMoveIndex, prevMousePos, pre, emitted, delegated>>

InitDedup == InitWith({<< >>})

NextDedup ==
    \/ BuildAppendPoint
    \/ EnterRemoveDuplicatePoints
    \/ DoWhileBody

SpecDedup == InitDedup /\ [][NextDedup]_vars

\* the call runs on once entered
SpecDedupFair == SpecDedup /\ WF_vars(DoWhileBody)

---------------------------------------------------------------------------
(* The mouse events of a drag as actions.                                  *)

\* scene positions of the mouse: the centres of the grid nodes, a position
\* on the edge of the handle at node (0,0), and one just outside it
MousePositions ==
    {toScenePoint(g) : g \in GridPositions}
    \cup {<<HANDLE_SIZE, 0>>, <<HANDLE_SIZE + 1, 0>>}

\* scene positions the mouse is moved to
MovePositions == {toScenePoint(g) : g \in GridPositions}

\* scene positions the button is released at
ReleasePositions == {<<0, 0>>, <<HANDLE_SIZE + 1, 0>>, toScenePoint(<<2, 1>>)}

\* the wire stays on the enumerated grid
OnGrid(w) ==
    \A i \in 1..Len(w.points) : Add(toPoint(w.points[i]), w.gridPos) \in GridPositions

\* the state after an event handler that took Wire to w
Handled(w, c) ==
    /\ OnGrid(w)
    /\ points' = w.points
    /\ rect' = w.rect
    /\ pointToMoveIndex' = w.pointToMoveIndex
    /\ lineSegmentToMoveIndex' = w.lineSegmentToMoveIndex
    /\ prevMousePos' = w.prevMousePos
    /\ delegated' = w.delegated
    /\ emitted' = w.emits
    /\ call' = c
    /\ UNCHANGED <<gridPos, selected, pre>>

MousePress ==
    \E s \in MousePositions :
        Handled(mousePressEvent(Wire, s), Call("mousePressEvent", 0, s, FALSE))

MouseRelease ==
    \E s \in ReleasePositions :
        Handled(mouseReleaseEvent(Wire, s), Call("mouseReleaseEvent", 0, s, FALSE))

MouseMove ==
    \E s \in MovePositions, ctrlPressed \in BOOLEAN :
        \E line \in lineAt(Wire, Max(lineSegmentToMoveIndex, 0)) :
            Handled(mouseMoveEvent(Wire, s, ctrlPressed, line),
                    Call("mouseMoveEvent", 0, s, ctrlPressed))

\* QGraphicsItem::setSelected, by the scene
SetSelected ==
    /\ selected' = ~selected
    /\ call' = Call("setSelected", 0, <<0, 0>>, ~selected)
    /\ emitted' = << >>
    /\ delegated' = FALSE
    /\ UNCHANGED <<points, rect, gridPos, pointToMoveIndex,
                   lineSegmentToMoveIndex, prevMousePos, pre>>

\* the members as the constructor leaves them; the events of a drag are
\* compared step by step, and pre keeps this value throughout
Constructed ==
    [points |-> << >>, rect |-> calculateBoundingRect(<< >>),
     pointToMoveIndex |-> -1, lineSegmentToMoveIndex |-> -1,
     prevMousePos |-> <<0, 0>>]

\* the wires of at most n points on the grid nodes
DragWires(n, anchor) ==
    {[i \in 1..Len(ps) |-> WirePoint(Sub(ps[i], anchor))] :
        ps \in Lists(GridPositions, n)}

InitDrag ==
    /\ gridPos = DragAnchor
    /\ points \in DragWires(MaxDragPts, gridPos)
    /\ rect = calculateBoundingRect(points)
    /\ selected = FALSE
    /\ pointToMoveIndex = -1
    /\ lineSegmentToMoveIndex = -1
    /\ prevMousePos = <<0, 0>>
    /\ call = Call("none", 0, <<0, 0>>, FALSE)
    /\ pre = Constructed
    /\ emitted = << >>
    /\ delegated = FALSE

NextDrag ==
    \/ MousePress
    \/ MouseMove
    \/ MouseRelease
    \/ SetSelected

SpecDrag == InitDrag /\ [][NextDrag]_vars

---------------------------------------------------------------------------
(* A drag followed from its press, on a selected wire: presses and moves   *)
(* only.  pre is the wire as the last press left it, so pre.prevMousePos   *)
(* is the grid position of that press.                                     *)

MousePressRecorded ==
    \E s \in MousePositions :
        LET w == mousePressEvent(Wire, s)
        IN  /\ OnGrid(w)
            /\ points' = w.points
            /\ rect' = w.rect
            /\ pointToMoveIndex' = w.pointToMoveIndex
            /\ lineSegmentToMoveIndex' = w.lineSegmentToMoveIndex
            /\ prevMousePos' = w.prevMousePos
            /\ delegated' = w.delegated
            /\ emitted' = w.emits
            /\ call' = Call("mousePressEvent", 0, s, FALSE)
            /\ pre' = [points |-> w.points, rect |-> w.rect,
                       pointToMoveIndex |-> w.pointToMoveIndex,
                       lineSegmentToMoveIndex |-> w.lineSegmentToMoveIndex,
                       prevMousePos |-> w.prevMousePos]
            /\ UNCHANGED <<gridPos, selected>>

InitFollow ==
    /\ gridPos = DragAnchor
    /\ points \in DragWires(MaxDragPts, gridPos)
    /\ rect = calculateBoundingRect(points)
    /\ selected = TRUE
    /\ pointToMoveIndex = -1
    /\ lineSegmentToMoveIndex = -1
    /\ prevMousePos = <<0, 0>>
    /\ call = Call("none", 0, <<0, 0>>, FALSE)
    /\ pre = Constructed
    /\ emitted = << >>
    /\ delegated = FALSE

NextFollow ==
    \/ MousePressRecorded
    \/ MouseMove

SpecFollow == InitFollow /\ [][NextFollow]_vars

---------------------------------------------------------------------------
(* The host removing points between the mouse events of a drag.            *)

EditRemoveFirstPoint ==
    Handled(removeFirstPoint(Wire), Call("removeFirstPoint", 0, <<0, 0>>, FALSE))

EditRemoveLastPoint ==
    Handled(removeLastPoint(Wire), Call("removeLastPoint", 0, <<0, 0>>, FALSE))

EditRemovePoint ==
    \E p \in GridPositions :
        Handled(removePoint(Wire, p), Call("removePoint", 0, p, FALSE))

EditRemoveDuplicatePoints ==
    \E kind \in EraseKinds :
        Handled(removeDuplicatePoints(Wire, kind),
                Call("removeDuplicatePoints", 0, <<0, 0>>, FALSE))

EditRemoveObsoletePoints ==
    Handled(removeObsoletePoints(Wire),
            Call("removeObsoletePoints", 0, <<0, 0>>, FALSE))

NextEdit ==
    \/ MousePress
    \/ MouseMove
    \/ MouseRelease
    \/ SetSelected
    \/ EditRemoveFirstPoint
    \/ EditRemoveLastPoint
    \/ EditRemovePoint
    \/ EditRemoveDuplicatePoints
    \/ EditRemoveObsoletePoints

SpecEdit == InitDrag /\ [][NextEdit]_vars

---------------------------------------------------------------------------
(* Vocabulary of the properties.                                           *)

pointCount(pts) == Len(pts)
segmentCount(pts) == Max(Len(pts) - 1, 0)
Called(op) == call.op = op
Last(s) == s[Len(s)]

\* p2 continues p1 -> p2 in the same direction: dot(v1, v2) = |v1| * |v2|
SameDirection(p1, p2, p3) ==
    LET v1 == Sub(p2, p1)
        v2 == Sub(p3, p2)
    IN  /\ Dot(v1, v2) >= 0
        /\ Dot(v1, v2) * Dot(v1, v2) = Dot(v1, v1) * Dot(v2, v2)

SetMin(S) == CHOOSE m \in S : \A n \in S : m <= n
SetMax(S) == CHOOSE m \in S : \A n \in S : m >= n

\* the rectangle spanned by the points of a non-empty list, scaled
ExactBounds(pts) ==
    LET xs == {pts[i].x : i \in 1..Len(pts)}
        ys == {pts[i].y : i \in 1..Len(pts)}
    IN  [topLeft     |-> <<SetMin(xs) * GridSize, SetMin(ys) * GridSize>>,
         bottomRight |-> <<SetMax(xs) * GridSize, SetMax(ys) * GridSize>>]

---------------------------------------------------------------------------
(* C1: moveLineSegmentBy(segmentIndex, delta) is a no-op whenever          *)
(* segmentIndex < 0 or segmentIndex >= segmentCount, segmentIndex =        *)
(* pointCount - 1 included: no position changes, no notification fires.    *)
(* The guard of the code lets segmentIndex = pointCount - 1 through, and   *)
(* the last point is then moved and announced.                             *)
C1_OutOfRangeSegmentIsNoOp ==
    (/\ Called("moveLineSegmentBy")
     /\ (call.index < 0 \/ call.index >= segmentCount(pre.points)))
    => (/\ Positions(points) = Positions(pre.points)
        /\ emitted = << >>)

(* C2: at every point-changed notification that moveLineSegmentBy(i, d)    *)
(* with a valid segment index triggers, both endpoints i and i+1 already   *)
(* are moved by d.  The code notifies from the first movePointBy, before   *)
(* the second endpoint is touched.                                         *)
C2_SegmentMoveIsAtomic ==
    (/\ Called("moveLineSegmentBy")
     /\ call.index >= 0 /\ call.index < segmentCount(pre.points))
    => \A k \in 1..Len(emitted) :
          LET seen == emitted[k].points
              i == call.index + 1
          IN  /\ toPoint(seen[i]) = Add(toPoint(pre.points[i]), call.point)
              /\ toPoint(seen[i + 1]) = Add(toPoint(pre.points[i + 1]), call.point)

(* C3: removeObsoletePoints returns exactly the number of points it        *)
(* removed, pointCount before less pointCount after, for every list and    *)
(* every position of the wire (0 and nothing changed below 3 points).      *)
(* The code returns the number of points it marked; removePoint then takes *)
(* the wire's position off the marked position a second time and removes   *)
(* every point at the resulting position.                                  *)
C3_ReturnsNumberRemoved ==
    Called("removeObsoletePoints")
    => (/\ call.ret = pointCount(pre.points) - pointCount(points)
        /\ (pointCount(pre.points) < 3 => (call.ret = 0 /\ points = pre.points)))

(* C4: after removeObsoletePoints no interior point continues its          *)
(* predecessor's direction, dot(p2-p1, p3-p2) = |p2-p1| * |p3-p2|, for     *)
(* every list and every position of the wire.                              *)
C4_NoObsoletePointLeft ==
    Called("removeObsoletePoints")
    => \A i \in 2..(Len(points) - 1) :
          ~SameDirection(toPoint(points[i - 1]), toPoint(points[i]),
                         toPoint(points[i + 1]))

(* C5 as claimed: every call of the API that changes the point list fires  *)
(* at least one point-changed notification after the change is applied.    *)
Mutators ==
    {"prependPoint", "appendPoint", "insertPoint", "removeFirstPoint",
     "removeLastPoint", "removePoint", "removeDuplicatePoints",
     "removeObsoletePoints", "movePointBy", "movePointTo",
     "moveLineSegmentBy", "setPointIsJunction"}

NotifiedAfterChange ==
    /\ emitted # << >>
    /\ Last(emitted).points = points
    /\ Last(emitted).rect = rect

C5_EveryMutationNotifies ==
    (call.op \in Mutators /\ points # pre.points) => NotifiedAfterChange

(* C5 as amended: the calls that add or move a point (prepend, append,     *)
(* insert, movePointBy, movePointTo, moveLineSegmentBy) fire a             *)
(* notification after the change is applied, the last one carrying the     *)
(* final list; the calls that remove points or set the junction flag fire  *)
(* none.                                                                   *)
Notifying ==
    {"prependPoint", "appendPoint", "insertPoint", "movePointBy",
     "movePointTo", "moveLineSegmentBy"}

C5_AddsAndMovesNotify ==
    /\ (call.op \in Notifying /\ points # pre.points) => NotifiedAfterChange
    /\ (call.op \in Mutators \ Notifying) => emitted = << >>

C5_Witness ==
    /\ Called("moveLineSegmentBy")
    /\ points # pre.points
    /\ Len(emitted) = 2
    /\ Last(emitted).points = points

(* C6: insert(index, p) with index < 0 or index >= count leaves the list,  *)
(* the bounds and the junction flags unchanged and fires no notification;  *)
(* with 0 <= index < count it places p at position index, shifts the       *)
(* former points index..count-1 up by one and grows count by exactly 1.    *)
C6_InsertBoundary ==
    Called("insertPoint")
    => LET n == pointCount(pre.points)
           i == call.index
       IN  IF i < 0 \/ i >= n
           THEN /\ points = pre.points
                /\ rect = pre.rect
                /\ emitted = << >>
           ELSE /\ pointCount(points) = n + 1
                /\ Add(gridPos, toPoint(points[i + 1])) = call.point
                /\ \A k \in 1..i : points[k] = pre.points[k]
                /\ \A k \in (i + 1)..n : points[k + 1] = pre.points[k]

C6_Witness ==
    /\ Called("insertPoint")
    /\ call.index = 1
    /\ pointCount(pre.points) = 3
    /\ pointCount(points) = 4
    /\ pre.points[3].isJunction
    /\ points[4].isJunction

(* C7: after removeDuplicatePoints no two points of the list have the same *)
(* position, and the returned removedCount is the point count before the   *)
(* call less the point count after it.                                     *)
C7_DuplicatesRemoved ==
    Called("removeDuplicatePoints")
    => (/\ \A i, j \in 1..Len(points) :
              i # j => toPoint(points[i]) # toPoint(points[j])
        /\ call.ret = pointCount(pre.points) - pointCount(points))

C7_Witness ==
    /\ Called("removeDuplicatePoints")
    /\ call.ret = 2
    /\ pointCount(pre.points) = 4
    /\ pointCount(points) = 2

(* C8: bounds are never stale: after any mutation that leaves at least one *)
(* point the stored rectangle has topLeft = (min x, min y) and             *)
(* bottomRight = (max x, max y) of the current points scaled by the cell   *)
(* size, and appending a point outside the current rectangle strictly      *)
(* grows it.  removeDuplicatePoints never recomputes the rectangle and can *)
(* drop the only point at an extreme position.                             *)
Inside(p, r) ==
    /\ r.topLeft[1] <= p[1] * GridSize /\ p[1] * GridSize <= r.bottomRight[1]
    /\ r.topLeft[2] <= p[2] * GridSize /\ p[2] * GridSize <= r.bottomRight[2]

Grows(old, new) ==
    /\ new.topLeft[1] <= old.topLeft[1] /\ new.topLeft[2] <= old.topLeft[2]
    /\ new.bottomRight[1] >= old.bottomRight[1]
    /\ new.bottomRight[2] >= old.bottomRight[2]
    /\ new # old

C8_BoundsNeverStale ==
    /\ (call.op \in Mutators /\ pointCount(points) >= 1)
       => rect = ExactBounds(points)
    /\ (/\ Called("appendPoint")
        /\ pointCount(pre.points) >= 1
        /\ ~Inside(Sub(call.point, gridPos), pre.rect))
       => Grows(pre.rect, rect)

---------------------------------------------------------------------------
(* The drag state machine.                                                 *)

Idle == pointToMoveIndex = -1 /\ lineSegmentToMoveIndex = -1
DraggingPoint(i) == pointToMoveIndex = i /\ i > -1
DraggingSegment(i) == pointToMoveIndex = -1 /\ lineSegmentToMoveIndex = i /\ i > -1

\* the mouse position of the last event hits the handle of point i (0-based)
HitsHandle(i) ==
    handleRectContains(scenePointsAbsolute(Wire)[i + 1], call.point)
\* the mouse position of the last event hits the region of segment i
HitsSegment(i) ==
    containsPoint(lineSegments(Wire)[i + 1], toGridPoint(call.point), 1)

(* C9: in DraggingSegment(i) a pointer-move applies delta = snapped        *)
(* pointer position - last known grid position, constrained by the         *)
(* segment's orientation: a horizontal segment takes the y component only  *)
(* (both endpoints move by it, their x unchanged), a vertical segment the  *)
(* x component only, a diagonal segment the full delta when the override   *)
(* flag is active and otherwise no point position changes.  (A segment of  *)
(* length zero passes isHorizontal first and is moved as a horizontal      *)
(* one.)                                                                   *)
C9_MoveStep ==
    (/\ DraggingSegment(lineSegmentToMoveIndex)
     /\ lineSegmentToMoveIndex < segmentCount(points)
     /\ call'.op = "mouseMoveEvent")
    => LET i == lineSegmentToMoveIndex + 1
           line == lineSegments(Wire)[i]
           delta == Sub(toGridPoint(call'.point), prevMousePos)
           applied == IF isHorizontal(line) THEN <<0, delta[2]>>
                      ELSE IF isVertical(line) THEN <<delta[1], 0>>
                      ELSE IF call'.flag THEN delta
                      ELSE <<0, 0>>
       IN  /\ toPoint(points'[i]) = Add(toPoint(points[i]), applied)
           /\ toPoint(points'[i + 1]) = Add(toPoint(points[i + 1]), applied)
           /\ \A k \in 1..Len(points) :
                 k \notin {i, i + 1} => toPoint(points'[k]) = toPoint(points[k])
           /\ Len(points') = Len(points)

C9_SegmentDragIsConstrained == [][C9_MoveStep]_vars

\* a horizontal segment of non-zero length has just been dragged by one
\* cell vertically: the first of the two signals still shows endpoint 2 at
\* its old place
C9_Witness ==
    /\ Called("mouseMoveEvent")
    /\ DraggingSegment(0)
    /\ pointCount(points) = 2
    /\ points[1].y = points[2].y /\ points[1].x # points[2].x
    /\ Len(emitted) = 2
    /\ emitted[1].points[2].y # points[2].y
    /\ emitted[1].points[2].x = points[2].x

(* C10: on pointer-down while the wire is selected, a pointer that hits no *)
(* handle and no segment region leaves the controller Idle and the event   *)
(* is handed to the host's generic handler; a handle hit takes priority    *)
(* over a segment hit and selects the first matching index.  The code      *)
(* calls Item::mousePressEvent only when the wire is not selected.         *)
C10_PressWithoutHitDelegates ==
    (Called("mousePressEvent") /\ selected)
    => LET handles == {i \in 0..(pointCount(points) - 1) : HitsHandle(i)}
           segments == {i \in 0..(segmentCount(points) - 1) : HitsSegment(i)}
       IN  /\ (handles = {} /\ segments = {}) => (Idle /\ delegated)
           /\ handles # {} => pointToMoveIndex = SetMin(handles)

(* C11: under any interleaving of pointer events with removals from the    *)
(* point list, DraggingPoint(i) implies 0 <= i < pointCount and            *)
(* DraggingSegment(i) implies 0 <= i < segmentCount.  The removers leave   *)
(* _pointToMoveIndex and _lineSegmentToMoveIndex as they are.              *)
C11_DragIndexInRange ==
    /\ DraggingPoint(pointToMoveIndex) => pointToMoveIndex < pointCount(points)
    /\ DraggingSegment(lineSegmentToMoveIndex)
           => lineSegmentToMoveIndex < segmentCount(points)

(* C12: a pointer-up from any state returns the controller to Idle, makes  *)
(* the snapped release position the last known grid position and leaves   *)
(* the point list as the last move put it; a pointer-move that follows     *)
(* without a new pointer-down changes no point, emits nothing and stays    *)
(* Idle.                                                                   *)
C12_ReleaseStep ==
    call'.op = "mouseReleaseEvent"
    => /\ pointToMoveIndex' = -1
       /\ lineSegmentToMoveIndex' = -1
       /\ prevMousePos' = toGridPoint(call'.point)
       /\ points' = points
       /\ rect' = rect
       /\ emitted' = << >>

C12_MoveWhenIdleStep ==
    (Idle /\ call'.op = "mouseMoveEvent")
    => /\ points' = points
       /\ rect' = rect
       /\ emitted' = << >>
       /\ pointToMoveIndex' = -1
       /\ lineSegmentToMoveIndex' = -1

C12_ReleaseEndsDrag == [][C12_ReleaseStep /\ C12_MoveWhenIdleStep]_vars

\* the button is up over a selected wire of two points, the mouse has just
\* been moved onto the handle of a point, and the event went to the host
C12_Witness ==
    /\ Called("mouseMoveEvent")
    /\ selected
    /\ Idle
    /\ pointCount(points) = 2
    /\ \E i \in 0..1 : HitsHandle(i)
    /\ delegated
    /\ emitted = << >>

(* C13: append(p) followed by removeLast() restores the prior point list   *)
(* in content (positions and junction flags) and order, and so does        *)
(* prepend(p) followed by removeFirst().                                   *)
C13_AddThenRemoveRestores ==
    (Called("removeLastPoint") \/ Called("removeFirstPoint"))
    => points = pre.points

\* p was appended to a wire that has a junction and taken off again
C13_Witness ==
    /\ Called("removeLastPoint")
    /\ pointCount(pre.points) >= 2
    /\ \E i \in 1..Len(pre.points) : pre.points[i].isJunction
    /\ Sub(call.point, gridPos) \notin {toPoint(Last(pre.points))}
    /\ points = pre.points

(* C14: for every valid index i and every delta d, movePointBy(i, d)       *)
(* followed by movePointBy(i, -d) restores the position at i and leaves    *)
(* the positions of all other points unchanged.                            *)
C14_MoveBackRestores ==
    (/\ Called("movePointBy")
     /\ call.point \in Back
     /\ call.index >= 0
     /\ call.index < pointCount(pre.points))
    => Positions(points) = Positions(pre.points)

\* point 1 of three was moved by d and back by -d
C14_Witness ==
    /\ Called("movePointBy")
    /\ call.point \in Back
    /\ call.index = 1
    /\ pointCount(pre.points) = 3
    /\ Len(emitted) = 1
    /\ toPoint(emitted[1].point) = toPoint(pre.points[2])
    /\ Positions(points) = Positions(pre.points)

(* C15: for index < 0 or index >= count, movePointBy, movePointTo and      *)
(* setPointIsJunction leave positions, junction flags and bounds unchanged *)
(* and emit nothing; removeFirstPoint and removeLastPoint on an empty list *)
(* likewise change nothing.                                                *)
C15_OutOfRangeIsNoOp ==
    /\ (/\ Called("movePointBy") \/ Called("movePointTo") \/ Called("setPointIsJunction")
        /\ (call.index < 0 \/ call.index >= pointCount(pre.points)))
       => (points = pre.points /\ rect = pre.rect /\ emitted = << >>)
    /\ (/\ Called("removeFirstPoint") \/ Called("removeLastPoint")
        /\ pointCount(pre.points) = 0)
       => (points = pre.points /\ rect = pre.rect /\ emitted = << >>)

\* setPointIsJunction(count, true) was called on a wire of two points
C15_Witness ==
    /\ Called("setPointIsJunction")
    /\ call.flag
    /\ pointCount(pre.points) = 2
    /\ call.index = pointCount(pre.points)
    /\ \A i \in 1..Len(points) : ~points[i].isJunction

\* the indices (1-based) the single pass over pts marks obsolete
Marked(pts) ==
    {i \in 2..(Len(pts) - 1) :
        SameDirection(toPoint(pts[i - 1]), toPoint(pts[i]), toPoint(pts[i + 1]))}

\* pts without the elements at the indices in gone, order kept
RECURSIVE Without(_, _)
Without(pts, gone) ==
    IF pts = << >> THEN << >>
    ELSE Without(SubSeq(pts, 1, Len(pts) - 1), gone)
         \o (IF Len(pts) \in gone THEN << >> ELSE <<Last(pts)>>)

(* C16: removeObsoletePoints removes exactly the points marked obsolete in *)
(* the single pass over the original list: every occurrence that was not   *)
(* marked is still present afterwards in its original relative order, even *)
(* when another occurrence of the same position was marked or two          *)
(* consecutive points coincide.  The code removes by position, with        *)
(* QVector::removeAll, so every occurrence of a marked position goes.      *)
C16_OnlyMarkedPointsRemoved ==
    Called("removeObsoletePoints")
    => points = Without(pre.points, Marked(pre.points))

(* C17: removeDuplicatePoints terminates on every list: the do-while body  *)
(* is run again only while some position still occurs more than once, each *)
(* run that starts with a duplicate removes at least one point, and the    *)
(* loop eventually exits with all positions unique.                        *)
C17_BodyStep ==
    InLoop
    => /\ ~allUnique(points) => pointCount(points') < pointCount(points)
       /\ call'.ret - call.ret = pointCount(points) - pointCount(points')

C17_DedupTerminates ==
    /\ InLoop ~> Exited
    /\ [][C17_BodyStep]_vars
    /\ [](call.op = "do" => ~allUnique(points))
    /\ [](Exited => allUnique(points))

\* the body has run once on a list of six points, has removed three of
\* them, and duplicates are left: the loop is about to run again
C17_Witness ==
    /\ call.op = "do"
    /\ pointCount(pre.points) = 6
    /\ call.ret = 3
    /\ pointCount(points) = 3
    /\ ~allUnique(points)

\* the junction flags of a list, in order
Junctions(pts) == [i \in 1..Len(pts) |-> pts[i].isJunction]

(* C18: movePointBy, movePointTo and moveLineSegmentBy change positions    *)
(* only: the junction flag of every point is the same after the move as    *)
(* before it.  The code stores a newly constructed WirePoint at the moved   *)
(* index, and with it that constructor's flag.                             *)
C18_MovesKeepJunctions ==
    (Called("movePointBy") \/ Called("movePointTo") \/ Called("moveLineSegmentBy"))
    => Junctions(points) = Junctions(pre.points)

(* C19: in every state reachable by pointer-down, pointer-move and         *)
(* pointer-up events (two pointer-downs with no pointer-up between them    *)
(* and pointer-downs while unselected included) the point drag index and   *)
(* the segment drag index are never both set.  A press that hits a handle  *)
(* returns before the segment index is touched.                            *)
C19_OneDragTargetAtMost ==
    ~(pointToMoveIndex > -1 /\ lineSegmentToMoveIndex > -1)

(* C20: drag deltas telescope.  For a drag of a horizontal (resp.          *)
(* vertical) segment started by a pointer-down at grid position g0 and     *)
(* followed by pointer-moves to g1..gn with nothing else in between, both  *)
(* endpoints are displaced by exactly gn.y - g0.y vertically (resp.        *)
(* gn.x - g0.x horizontally) from where they were at the pointer-down,     *)
(* whatever the intermediate positions, and the segment keeps its          *)
(* orientation.  (A segment of length zero is dragged as a horizontal      *)
(* one.)                                                                   *)
C20_DragDeltasTelescope ==
    (/\ Called("mouseMoveEvent")
     /\ DraggingSegment(lineSegmentToMoveIndex)
     /\ lineSegmentToMoveIndex < segmentCount(points)
     /\ pre.pointToMoveIndex = -1
     /\ pre.lineSegmentToMoveIndex = lineSegmentToMoveIndex)
    => LET i == lineSegmentToMoveIndex + 1
           atPress == Line(toPoint(pre.points[i]), toPoint(pre.points[i + 1]))
           now == Line(toPoint(points[i]), toPoint(points[i + 1]))
           g0 == pre.prevMousePos
           gn == toGridPoint(call.point)
       IN  /\ isHorizontal(atPress)
              => /\ now.p1 = Add(atPress.p1, <<0, gn[2] - g0[2]>>)
                 /\ now.p2 = Add(atPress.p2, <<0, gn[2] - g0[2]>>)
                 /\ isHorizontal(now)
           /\ (isVertical(atPress) /\ ~isHorizontal(atPress))
              => /\ now.p1 = Add(atPress.p1, <<gn[1] - g0[1], 0>>)
                 /\ now.p2 = Add(atPress.p2, <<gn[1] - g0[1], 0>>)
                 /\ isVertical(now) /\ ~isHorizontal(now)

\* a vertical segment pressed at g0 stands one cell to the right of where
\* it was at the press, the mouse is on another row than g0, and the last
\* move found the segment already there (it moved it by nothing), so it got
\* there by an earlier move
C20_Witness ==
    /\ Called("mouseMoveEvent")
    /\ DraggingSegment(0)
    /\ pointCount(points) = 2
    /\ pre.lineSegmentToMoveIndex = 0
    /\ pre.pointToMoveIndex = -1
    /\ pre.points[1].x = pre.points[2].x
    /\ pre.points[1].y # pre.points[2].y
    /\ toGridPoint(call.point)[1] = pre.prevMousePos[1] + 1
    /\ toGridPoint(call.point)[2] # pre.prevMousePos[2]
    /\ points[1].x = pre.points[1].x + 1
    /\ Len(emitted) = 2
    /\ Positions(emitted[1].points) = Positions(points)

=============================================================================
